---- MODULE Spec2Model ----
(***************************************************************************)
(* Model of the chat client's top-level view (the App component): the      *)
(* React state of the component, the asynchronous handlers as requests in  *)
(* flight that carry the values their closure captured, and the remote    *)
(* API as a small server.  Texts are sequences of tokens; the token " "   *)
(* is whitespace.  The created_at field of a summary is never read by a    *)
(* handler and is left out.                                                *)
(***************************************************************************)
EXTENDS Integers, Sequences, FiniteSets, TLC

VARIABLES
    messages,               \* useState<Message[]>            (line 47)
    input,                  \* useState("")                   (line 48)
    isLoading,              \* useState(false)                (line 49)
    accessToken,            \* useState<string | null>        (line 50)
    conversations,          \* useState<ConversationSummary[]>(line 51)
    currentConversationId,  \* useState<string | null>        (line 52)
    editingId,              \* useState<string | null>        (line 53)
    editingTitle,           \* useState("")                   (line 54)
    statusMessage,          \* useState<string | null>        (line 55)
    statusTimeoutId,        \* useState<number | null>        (line 56)
    net,                    \* handler invocations awaiting their fetch
    nextRid,                \* number of requests issued so far
    srvConvs,               \* server: the summaries, in list order
    srvMsgs,                \* server: the message list of each conversation
    srvNext,                \* server: number of conversation ids handed out
    srvGone,                \* server: ids of the conversations it deleted
    uploads,                \* upload handlers awaiting their fetch
    timers,                 \* pending window.setTimeout callbacks
    nextTimer,              \* number of timers started so far
    now,                    \* the clock
    statusSetAt,            \* when the displayed status was set
    mode,                   \* AuthForm: useState("login")
    loading,                \* AuthForm: useState(false)
    errorMsg,               \* AuthForm: useState<string | null>(null)
    authNet,                \* AuthForm: handleSubmit calls awaiting the provider
    assistantText,          \* the content of the assistant message rendered
    view,                   \* what the renderer made of it
    last                    \* the handler or step that ran last

vars == <<messages, input, isLoading, accessToken, conversations,
          currentConversationId, editingId, editingTitle, statusMessage,
          statusTimeoutId, net, nextRid, srvConvs, srvMsgs, srvNext, srvGone,
          uploads, timers, nextTimer, now, statusSetAt, mode, loading,
          errorMsg, authNet, assistantText, view, last>>

chatVars == <<messages, input, isLoading, accessToken, conversations,
              currentConversationId, editingId, editingTitle, net, nextRid,
              srvConvs, srvMsgs, srvNext, srvGone>>

statusVars == <<statusMessage, statusTimeoutId, uploads, timers, nextTimer,
                now, statusSetAt>>

formVars == <<mode, loading, errorMsg, authNet>>

renderVars == <<assistantText, view>>

----------------------------------------------------------------------------
(* Bounds of the model. *)

\* Requests the client issues in one behaviour.
MaxReq == 4

\* Conversations the server holds when the page is opened.
InitConvs == 1

\* Conversations the server creates in one behaviour.
MaxNewConvs == 1

\* Rename requests in flight at one time.
MaxRenames == 1

\* The length of the texts given to the renderer.
MaxText == 5

\* Timers started in one behaviour (an upload starts two).
MaxTimers == 4

\* How far the clock runs, in steps of half the banner delay.
MaxTicks == 5

----------------------------------------------------------------------------
(* Values. *)

\* null, for a conversation id (ids are 1, 2, ...).
NoId == 0

\* null, for the token.
NoToken == "none"

\* null, for a timer id (window.setTimeout returns positive ids).
NoTimer == 0

\* The delay of the banner's auto-clear timer, in milliseconds.
StatusDelay == 5000

\* A status of the banner: what it says, of which upload type and file, and
\* the fragment count it shows.
Status(kind, type, file, chunks) ==
    [kind |-> kind, type |-> type, file |-> file, chunks |-> chunks]

\* null, for the status banner.
NoStatus == Status("none", "", "", 0)

\* The files the user picks, and the chunks_added counts the server reports.
Files == {"f"}
Chunks == {1, 2}

Tokens == {"t1"}

\* What the user types in the question box.
Inputs == {<<>>, <<" ">>, <<" ", "q", " ">>}

\* What the user types in a title box.
Titles == {<<" ">>, <<"x", " ">>}

\* The hard-coded content of the error entry.
ErrorText == <<"Ha ocurrido un error llamando a la API.">>

\* The answer the server gives.
AnswerText == <<"answer">>

IsSpace(ch) == ch = " "

RECURSIVE TrimStart(_)
TrimStart(s) ==
    IF s = <<>> THEN <<>>
    ELSE IF IsSpace(Head(s)) THEN TrimStart(Tail(s)) ELSE s

RECURSIVE TrimEnd(_)
TrimEnd(s) ==
    IF s = <<>> THEN <<>>
    ELSE IF IsSpace(s[Len(s)]) THEN TrimEnd(SubSeq(s, 1, Len(s) - 1)) ELSE s

\* String.prototype.trim
Trim(s) == TrimEnd(TrimStart(s))

\* A message; conv is the conversation the client made the exchange in (NoId
\* for a thread that has no id yet), or the conversation it was fetched for.
Message(role, content, conv) == [role |-> role, content |-> content, conv |-> conv]

Summary(id, title) == [id |-> id, title |-> title]

Ids(list) == {list[i].id : i \in 1..Len(list)}

\* One invocation of an async handler, suspended at its fetch: the request and
\* the values the handler's closure holds.  stage is "sent" until the server
\* has handled the request and "served" after; list, msgs and newId are the
\* body of the response the server prepared.
\* A list request issued by handleSend records in `after` the id that send
\* adopted for its new thread.
Req(rid, kind, token, id, text, cur, fromSend) ==
    [rid |-> rid, kind |-> kind, stage |-> "sent", token |-> token, id |-> id,
     text |-> text, cur |-> cur, fromSend |-> fromSend, after |-> NoId,
     list |-> <<>>, msgs |-> <<>>, newId |-> NoId]

Pending(kind) == {r \in net : r.kind = kind}

\* Requests the bound still allows; each chat request in flight keeps one
\* for the list refresh that follows its success.
FreeRids == MaxReq - nextRid - Cardinality(Pending("chat"))

\* The value of `last`: the handler or step, and how its fetch ended.
Did(op) == [op |-> op, o |-> "none"]

Got(op, o) == [op |-> op, o |-> o]

\* null, for the error text of the authentication form.
NoError == "none"

\* Nothing rendered yet.
NoView == [kind |-> "none"]

\* The chat view is rendered, and its controls exist, only with a token.
ChatViewShown == accessToken # NoToken

----------------------------------------------------------------------------
(* The state after construction: no session, nothing loaded. *)

InitServerConvs ==
    [i \in 1..InitConvs |-> Summary(i, IF i = 1 THEN <<"a">> ELSE <<>>)]

InitServerMsgs ==
    [i \in 1..(InitConvs + MaxNewConvs) |->
        IF i <= InitConvs
        THEN <<Message("assistant", <<"history">>, i)>>
        ELSE <<>>]

\* The sidebar of a user who has one conversation more.
SidebarServerConvs ==
    [i \in 1..(InitConvs + 1) |-> Summary(i, IF i = 1 THEN <<"a">> ELSE <<>>)]

\* The page freshly loaded, with the server holding the summaries convs and
\* the renderer about to be given one of texts.
InitWith(convs, texts) ==
    /\ messages = <<>>
    /\ input = <<>>
    /\ isLoading = FALSE
    /\ accessToken = NoToken
    /\ conversations = <<>>
    /\ currentConversationId = NoId
    /\ editingId = NoId
    /\ editingTitle = <<>>
    /\ statusMessage = NoStatus
    /\ statusTimeoutId = NoTimer
    /\ net = {}
    /\ nextRid = 0
    /\ srvConvs = convs
    /\ srvMsgs = InitServerMsgs
    /\ srvNext = Len(convs)
    /\ srvGone = {}
    /\ uploads = {}
    /\ timers = {}
    /\ nextTimer = 0
    /\ now = 0
    /\ statusSetAt = 0
    /\ mode = "login"
    /\ loading = FALSE
    /\ errorMsg = NoError
    /\ authNet = {}
    /\ assistantText \in texts
    /\ view = NoView
    /\ last = Did("init")

Init == InitWith(InitServerConvs, {<<>>})

InitSidebar == InitWith(SidebarServerConvs, {<<>>})

----------------------------------------------------------------------------
(* Session. *)

\* loadConversations(token), up to its fetch.
LoadConversationsCall(token, fromSend, after, base) ==
    /\ net' = base \cup {[Req(nextRid + 1, "list", token, NoId, <<>>, NoId, fromSend)
                            EXCEPT !.after = after]}
    /\ nextRid' = nextRid + 1

\* AuthForm hands a token to setAccessToken; the effect on accessToken then
\* loads the conversation list.
Login(t) ==
    /\ accessToken = NoToken
    /\ FreeRids >= 1
    /\ accessToken' = t
    /\ LoadConversationsCall(t, FALSE, NoId, net)
    /\ last' = Did("login")
    /\ UNCHANGED <<messages, input, isLoading, conversations, currentConversationId,
                   editingId, editingTitle, srvConvs, srvMsgs, srvNext, srvGone>>
    /\ UNCHANGED <<statusVars, formVars, renderVars>>

\* "Cerrar sesion", then the effect on accessToken (its else branch).
Logout ==
    /\ ChatViewShown
    /\ accessToken' = NoToken
    /\ messages' = <<>>
    /\ currentConversationId' = NoId
    /\ conversations' = <<>>
    /\ last' = Did("logout")
    /\ UNCHANGED <<input, isLoading, editingId, editingTitle, net, nextRid,
                   srvConvs, srvMsgs, srvNext, srvGone>>
    /\ UNCHANGED <<statusVars, formVars, renderVars>>

\* "Recargar".
Reload ==
    /\ ChatViewShown
    /\ FreeRids >= 1
    /\ LoadConversationsCall(accessToken, FALSE, NoId, net)
    /\ last' = Did("reload")
    /\ UNCHANGED <<messages, input, isLoading, accessToken, conversations,
                   currentConversationId, editingId, editingTitle,
                   srvConvs, srvMsgs, srvNext, srvGone>>
    /\ UNCHANGED <<statusVars, formVars, renderVars>>

\* "Nuevo hilo".
NewThread ==
    /\ ChatViewShown
    /\ currentConversationId' = NoId
    /\ messages' = <<>>
    /\ last' = Did("newThread")
    /\ UNCHANGED <<input, isLoading, accessToken, conversations, editingId,
                   editingTitle, net, nextRid, srvConvs, srvMsgs, srvNext, srvGone>>
    /\ UNCHANGED <<statusVars, formVars, renderVars>>

----------------------------------------------------------------------------
(* Sending a question. *)

\* The question box is disabled while isLoading.
TypeInput(s) ==
    /\ ChatViewShown
    /\ ~isLoading
    /\ s # input
    /\ input' = s
    /\ last' = Did("typeInput")
    /\ UNCHANGED <<messages, isLoading, accessToken, conversations,
                   currentConversationId, editingId, editingTitle, net, nextRid,
                   srvConvs, srvMsgs, srvNext, srvGone>>
    /\ UNCHANGED <<statusVars, formVars, renderVars>>

\* A handleSend that starts a new conversation with every question.
SendConversationIdNull == NoId

\* A handleSend that tests the input as typed.
SendAcceptedUntrimmed == input # <<>> /\ ~isLoading /\ accessToken # NoToken

\* A handleSend that leaves the busy flag as it was.
BusyAfterSendUnset == isLoading

\* The busy flag handleSend sets before its fetch.
BusyAfterSend == TRUE

\* The guard of handleSend: the negation of its early return.
SendAccepted == Trim(input) # <<>> /\ ~isLoading /\ accessToken # NoToken

\* The conversation id handleSend puts in the body of POST /chat.
SendConversationId == currentConversationId

\* handleSend, up to its fetch (Enter in the question box, or "Enviar").
HandleSend ==
    /\ ChatViewShown
    /\ IF SendAccepted
       THEN /\ FreeRids >= 2
            /\ messages' = Append(messages,
                                  Message("user", Trim(input), SendConversationId))
            /\ input' = <<>>
            /\ isLoading' = BusyAfterSend
            /\ net' = net \cup {Req(nextRid + 1, "chat", accessToken,
                                    SendConversationId, Trim(input),
                                    currentConversationId, TRUE)}
            /\ nextRid' = nextRid + 1
            /\ last' = Did("send")
       ELSE /\ last' = Did("sendIgnored")
            /\ UNCHANGED <<messages, input, isLoading, net, nextRid>>
    /\ UNCHANGED <<accessToken, conversations, currentConversationId, editingId,
                   editingTitle, srvConvs, srvMsgs, srvNext, srvGone>>
    /\ UNCHANGED <<statusVars, formVars, renderVars>>

----------------------------------------------------------------------------
(* The sidebar: selecting, renaming and deleting a conversation. *)

\* loadConversationById(id), up to its fetch: a click on the summary at i.
SelectConversation(i) ==
    /\ ChatViewShown
    /\ i \in 1..Len(conversations)
    /\ IF accessToken = NoToken
       THEN UNCHANGED <<net, nextRid>> /\ last' = Did("selectIgnored")
       ELSE /\ FreeRids >= 1
            /\ net' = net \cup {Req(nextRid + 1, "conv", accessToken,
                                    conversations[i].id, <<>>,
                                    currentConversationId, FALSE)}
            /\ nextRid' = nextRid + 1
            /\ last' = Did("select")
    /\ UNCHANGED <<messages, input, isLoading, accessToken, conversations,
                   currentConversationId, editingId, editingTitle,
                   srvConvs, srvMsgs, srvNext, srvGone>>
    /\ UNCHANGED <<statusVars, formVars, renderVars>>

\* The pencil button of the summary at i (shown while that summary is not
\* being edited).
StartEdit(i) ==
    /\ ChatViewShown
    /\ i \in 1..Len(conversations)
    /\ editingId # conversations[i].id
    /\ editingId' = conversations[i].id
    /\ editingTitle' = conversations[i].title
    /\ last' = Did("startEdit")
    /\ UNCHANGED <<messages, input, isLoading, accessToken, conversations,
                   currentConversationId, net, nextRid,
                   srvConvs, srvMsgs, srvNext, srvGone>>
    /\ UNCHANGED <<statusVars, formVars, renderVars>>

\* The title box exists while the summary being edited is in the list.
TitleBoxShown == ChatViewShown /\ editingId # NoId /\ editingId \in Ids(conversations)

\* onChange of the title box.
TypeTitle(t) ==
    /\ TitleBoxShown
    /\ t # editingTitle
    /\ editingTitle' = t
    /\ last' = Did("typeTitle")
    /\ UNCHANGED <<messages, input, isLoading, accessToken, conversations,
                   currentConversationId, editingId, net, nextRid,
                   srvConvs, srvMsgs, srvNext, srvGone>>
    /\ UNCHANGED <<statusVars, formVars, renderVars>>

\* An Escape that leaves the edit open.
EditAfterEscapeKept(id) == id

\* The id being edited once Escape was pressed: setEditingId(null).
EditAfterEscape(id) == NoId

\* Escape in the title box.
CancelEdit ==
    /\ TitleBoxShown
    /\ editingId' = EditAfterEscape(editingId)
    /\ last' = Did("cancelEdit")
    /\ UNCHANGED <<messages, input, isLoading, accessToken, conversations,
                   currentConversationId, editingTitle, net, nextRid,
                   srvConvs, srvMsgs, srvNext, srvGone>>
    /\ UNCHANGED <<statusVars, formVars, renderVars>>

\* A handleRename that tests the title as typed.
RenameSendsUntrimmed(title) == title # <<>>

\* handleRename sends a PUT only for a title that is not empty once trimmed.
RenameSends(title) == Trim(title) # <<>>

\* handleRename(id), up to its fetch: Enter in the title box, or its blur.
HandleRename ==
    /\ TitleBoxShown
    /\ IF accessToken = NoToken
       THEN /\ last' = Did("renameIgnored")
            /\ UNCHANGED <<editingId, net, nextRid>>
       ELSE IF ~RenameSends(editingTitle)
       THEN /\ editingId' = NoId
            /\ last' = Did("renameEmpty")
            /\ UNCHANGED <<net, nextRid>>
       ELSE /\ FreeRids >= 1
            /\ Cardinality(Pending("rename")) < MaxRenames
            /\ net' = net \cup {Req(nextRid + 1, "rename", accessToken, editingId,
                                    Trim(editingTitle), currentConversationId,
                                    FALSE)}
            /\ nextRid' = nextRid + 1
            /\ last' = Did("rename")
            /\ UNCHANGED editingId
    /\ UNCHANGED <<messages, input, isLoading, accessToken, conversations,
                   currentConversationId, editingTitle,
                   srvConvs, srvMsgs, srvNext, srvGone>>
    /\ UNCHANGED <<statusVars, formVars, renderVars>>

\* handleDeleteConversation(id), up to its fetch: the bin button of the
\* summary at i (shown while that summary is not being edited).
HandleDeleteConversation(i) ==
    /\ ChatViewShown
    /\ i \in 1..Len(conversations)
    /\ editingId # conversations[i].id
    /\ IF accessToken = NoToken
       THEN UNCHANGED <<net, nextRid>> /\ last' = Did("deleteIgnored")
       ELSE /\ FreeRids >= 1
            /\ net' = net \cup {Req(nextRid + 1, "delete", accessToken,
                                    conversations[i].id, <<>>,
                                    currentConversationId, FALSE)}
            /\ nextRid' = nextRid + 1
            /\ last' = Did("delete")
    /\ UNCHANGED <<messages, input, isLoading, accessToken, conversations,
                   currentConversationId, editingId, editingTitle,
                   srvConvs, srvMsgs, srvNext, srvGone>>
    /\ UNCHANGED <<statusVars, formVars, renderVars>>

----------------------------------------------------------------------------
(* The remote API.  A request is served at some moment between its fetch   *)
(* and the arrival of its response; a request the server refuses, or that  *)
(* the network loses, changes nothing on the server.                       *)

Served(r, body) == net' = (net \ {r}) \cup {[body EXCEPT !.stage = "served"]}

\* POST /chat: the exchange is stored in the conversation named by the
\* request, or in a new one; the response may name the conversation.
ServeChat(r) ==
    /\ r \in Pending("chat") /\ r.stage = "sent"
    /\ \E echo \in BOOLEAN :
        LET n == IF r.id = NoId THEN srvNext + 1 ELSE r.id
            exchange == <<Message("user", r.text, n),
                          Message("assistant", AnswerText, n)>>
        IN  /\ IF r.id = NoId
               THEN /\ srvNext < InitConvs + MaxNewConvs
                    /\ srvConvs' = Append(srvConvs, Summary(n, <<>>))
                    /\ srvNext' = n
               ELSE /\ r.id \in Ids(srvConvs)
                    /\ UNCHANGED <<srvConvs, srvNext>>
            /\ srvMsgs' = [srvMsgs EXCEPT ![n] = @ \o exchange]
            /\ Served(r, [r EXCEPT !.newId = IF echo THEN n ELSE NoId])
    /\ UNCHANGED srvGone

\* GET /conversations
ServeList(r) ==
    /\ r \in Pending("list") /\ r.stage = "sent"
    /\ Served(r, [r EXCEPT !.list = srvConvs])
    /\ UNCHANGED <<srvConvs, srvMsgs, srvNext, srvGone>>

\* GET /conversations/{id}
ServeConv(r) ==
    /\ r \in Pending("conv") /\ r.stage = "sent"
    /\ r.id \in Ids(srvConvs)
    /\ Served(r, [r EXCEPT !.msgs = srvMsgs[r.id]])
    /\ UNCHANGED <<srvConvs, srvMsgs, srvNext, srvGone>>

\* PUT /conversations/{id}/title
ServeRename(r) ==
    /\ r \in Pending("rename") /\ r.stage = "sent"
    /\ r.id \in Ids(srvConvs)
    /\ srvConvs' = [i \in 1..Len(srvConvs) |->
                      IF srvConvs[i].id = r.id
                      THEN Summary(r.id, r.text) ELSE srvConvs[i]]
    /\ Served(r, r)
    /\ UNCHANGED <<srvMsgs, srvNext, srvGone>>

\* DELETE /conversations/{id}
ServeDelete(r) ==
    /\ r \in Pending("delete") /\ r.stage = "sent"
    /\ r.id \in Ids(srvConvs)
    /\ srvConvs' = SelectSeq(srvConvs, LAMBDA c : c.id # r.id)
    /\ srvGone' = srvGone \cup {r.id}
    /\ Served(r, r)
    /\ UNCHANGED <<srvMsgs, srvNext>>

Serve(r) ==
    /\ \/ ServeChat(r)
       \/ ServeList(r)
       \/ ServeConv(r)
       \/ ServeRename(r)
       \/ ServeDelete(r)
    /\ last' = Did("serve")
    /\ UNCHANGED <<messages, input, isLoading, accessToken, conversations,
                   currentConversationId, editingId, editingTitle, nextRid>>
    /\ UNCHANGED <<statusVars, formVars, renderVars>>

\* How a fetch can end: "ok" (status ok, the body as the server prepared it),
\* "badjson" (status ok, a body res.json() cannot parse), "nofield" (status
\* ok, a JSON body without the field the handler reads), "notok" (an error
\* status) and "reject" (the fetch promise rejects).  handleRename and
\* handleDeleteConversation never read the body.
Outcomes(r) ==
    (IF r.stage = "served" THEN {"ok", "reject"} ELSE {"notok", "reject"})
    \cup (IF r.stage = "served" /\ r.kind \in {"chat", "list", "conv"}
          THEN {"badjson"} ELSE {})
    \cup (IF r.stage = "served" /\ r.kind = "list" THEN {"nofield"} ELSE {})
    \cup (IF r.kind = "conv" THEN {"nofield"} ELSE {})

----------------------------------------------------------------------------
(* The handlers, from their fetch on. *)

\* handleSend reaches its catch block unless the status is ok and the body
\* parses.
ChatSucceeds(o) == o = "ok"

\* A handleSend that ignores the id of the response.
AdoptedIdIgnored(r, cur) == cur

\* The conversation id handleSend makes active when the answer arrives.
AdoptedId(r, cur) == IF r.newId # NoId THEN r.newId ELSE cur

\* A handleSend whose catch block runs after the answer was appended.
AfterChatFailureWithAnswer(prev, r) ==
    Append(Append(prev, Message("assistant", AnswerText, r.id)),
           Message("assistant", ErrorText, r.id))

\* The transcript after a chat call that failed.
AfterChatFailure(prev, r) == Append(prev, Message("assistant", ErrorText, r.id))

\* The transcript after a chat call that succeeded.
AfterChatSuccess(prev, r) ==
    Append(prev, Message("assistant", AnswerText,
                         IF r.newId # NoId THEN r.newId ELSE r.id))

\* The active id after a chat call that failed.
ActiveAfterChatFailure(r, cur) == cur

\* A handleSend that refreshes the list with the token of the current render.
RefreshTokenCurrent(r) == accessToken

\* The token handleSend passes to loadConversations: the one of its closure,
\* which it also sent the question with.
RefreshToken(r) == r.token

\* handleSend, from the response of POST /chat to the fetch of the list
\* refresh (success) or to its end (failure).
ChatResponse(r, o) ==
    /\ r \in Pending("chat") /\ o \in Outcomes(r)
    /\ last' = Got("chatResponse", o)
    /\ IF ChatSucceeds(o)
       THEN /\ messages' = AfterChatSuccess(messages, r)
            /\ currentConversationId' = AdoptedId(r, currentConversationId)
            /\ LoadConversationsCall(RefreshToken(r), TRUE,
                                     IF r.id = NoId THEN r.newId ELSE NoId,
                                     net \ {r})
            /\ UNCHANGED isLoading
       ELSE /\ messages' = AfterChatFailure(messages, r)
            /\ currentConversationId' =
                   ActiveAfterChatFailure(r, currentConversationId)
            /\ isLoading' = FALSE
            /\ net' = net \ {r}
            /\ UNCHANGED nextRid
    /\ UNCHANGED <<input, accessToken, conversations, editingId, editingTitle,
                   srvConvs, srvMsgs, srvNext, srvGone>>
    /\ UNCHANGED <<statusVars, formVars, renderVars>>

\* loadConversations replaces the list when the status is ok and the body
\* parses.
ListApplies(o) == o \in {"ok", "nofield"}

\* A handleSend that clears the busy flag only after a refresh that applied.
BusyAfterRefreshApplied(r, o, busy) ==
    IF r.fromSend /\ ListApplies(o) THEN FALSE ELSE busy

\* The busy flag once loadConversations has returned: the finally block of a
\* handleSend that awaited it clears the flag.
BusyAfterRefresh(r, o, busy) == IF r.fromSend THEN FALSE ELSE busy

\* loadConversations, from its response on; when handleSend awaited it,
\* handleSend's finally block follows.
ListResponse(r, o) ==
    /\ r \in Pending("list") /\ o \in Outcomes(r)
    /\ conversations' = IF ListApplies(o)
                        THEN (IF o = "ok" THEN r.list ELSE <<>>)
                        ELSE conversations
    /\ isLoading' = BusyAfterRefresh(r, o, isLoading)
    /\ net' = net \ {r}
    /\ last' = Got(IF r.fromSend THEN "refreshResponse" ELSE "listResponse", o)
    /\ UNCHANGED <<messages, input, accessToken, currentConversationId, editingId,
                   editingTitle, nextRid, srvConvs, srvMsgs, srvNext, srvGone>>
    /\ UNCHANGED <<statusVars, formVars, renderVars>>

\* loadConversationById replaces the transcript when the status is ok and
\* the body holds a conversation with a message list.
ConvApplies(o) == o = "ok"

\* A loadConversationById that clears the transcript before it fetches.
AfterConvFailureCleared(prevMessages, prevId, r) == <<(<<>>), prevId>>

\* The transcript and the active id after a fetch that did not apply.
AfterConvFailure(prevMessages, prevId, r) == <<prevMessages, prevId>>

\* A loadConversationById that keeps the active id once there is one.
SelectedIdKept(r, cur) == IF cur = NoId THEN r.id ELSE cur

\* The id loadConversationById makes active with the transcript it fetched:
\* the one it was called with.
SelectedId(r, cur) == r.id

\* loadConversationById, from its response on.
ConvResponse(r, o) ==
    /\ r \in Pending("conv") /\ o \in Outcomes(r)
    /\ last' = Got("convResponse", o)
    /\ IF ConvApplies(o)
       THEN /\ messages' = r.msgs
            /\ currentConversationId' = SelectedId(r, currentConversationId)
       ELSE /\ messages' = AfterConvFailure(messages, currentConversationId, r)[1]
            /\ currentConversationId' =
                   AfterConvFailure(messages, currentConversationId, r)[2]
    /\ net' = net \ {r}
    /\ UNCHANGED <<input, isLoading, accessToken, conversations, editingId,
                   editingTitle, nextRid, srvConvs, srvMsgs, srvNext, srvGone>>
    /\ UNCHANGED <<statusVars, formVars, renderVars>>

\* handleRename and handleDeleteConversation go on after their fetch unless
\* its promise rejects: neither looks at the status.
FetchResolves(o) == o # "reject"

\* A handleRename that gives the title to every summary.
RenamedAll(list, r) ==
    [i \in 1..Len(list) |-> Summary(list[i].id, r.text)]

\* A handleRename that puts the summary back when the list lacks it.
RenamedOrAdded(list, r) ==
    IF r.id \in Ids(list)
    THEN [i \in 1..Len(list) |->
            IF list[i].id = r.id THEN Summary(list[i].id, r.text) ELSE list[i]]
    ELSE Append(list, Summary(r.id, r.text))

\* The list after a rename whose fetch resolved.
Renamed(list, r) ==
    [i \in 1..Len(list) |->
        IF list[i].id = r.id THEN Summary(list[i].id, r.text) ELSE list[i]]

\* handleRename, from its response on.
RenameResponse(r, o) ==
    /\ r \in Pending("rename") /\ o \in Outcomes(r)
    /\ conversations' = IF FetchResolves(o) THEN Renamed(conversations, r)
                        ELSE conversations
    /\ editingId' = NoId
    /\ net' = net \ {r}
    /\ last' = [op |-> "renameResponse", o |-> o, id |-> r.id]
    /\ UNCHANGED <<messages, input, isLoading, accessToken, currentConversationId,
                   editingTitle, nextRid, srvConvs, srvMsgs, srvNext, srvGone>>
    /\ UNCHANGED <<statusVars, formVars, renderVars>>

\* The list after a delete whose fetch resolved.
Without(list, r) == SelectSeq(list, LAMBDA c : c.id # r.id)

\* handleDeleteConversation clears the transcript when the id it deletes is
\* the active id its closure holds.
DeleteClears(r, cur) == r.cur = r.id

\* handleDeleteConversation, from its response on.
DeleteResponse(r, o) ==
    /\ r \in Pending("delete") /\ o \in Outcomes(r)
    /\ IF FetchResolves(o)
       THEN /\ conversations' = Without(conversations, r)
            /\ IF DeleteClears(r, currentConversationId)
               THEN currentConversationId' = NoId /\ messages' = <<>>
               ELSE UNCHANGED <<currentConversationId, messages>>
       ELSE UNCHANGED <<conversations, currentConversationId, messages>>
    /\ net' = net \ {r}
    /\ last' = [op |-> "deleteResponse", o |-> o, id |-> r.id]
    /\ UNCHANGED <<input, isLoading, accessToken, editingId, editingTitle,
                   nextRid, srvConvs, srvMsgs, srvNext, srvGone>>
    /\ UNCHANGED <<statusVars, formVars, renderVars>>

----------------------------------------------------------------------------
(* The conversation controller: session, sending, selecting and deleting. *)

Next ==
    \/ \E t \in Tokens : Login(t)
    \/ Logout
    \/ Reload
    \/ NewThread
    \/ \E s \in Inputs : TypeInput(s)
    \/ HandleSend
    \/ \E i \in 1..Len(conversations) : SelectConversation(i)
    \/ \E i \in 1..Len(conversations) : HandleDeleteConversation(i)
    \/ \E r \in net : Serve(r)
    \/ \E r \in net : \E o \in Outcomes(r) : ChatResponse(r, o)
    \/ \E r \in net : \E o \in Outcomes(r) : ListResponse(r, o)
    \/ \E r \in net : \E o \in Outcomes(r) : ConvResponse(r, o)
    \/ \E r \in net : \E o \in Outcomes(r) : DeleteResponse(r, o)

Spec == Init /\ [][Next]_vars

\* The session and handleSend alone.
NextSend ==
    \/ \E t \in Tokens : Login(t)
    \/ Logout
    \/ NewThread
    \/ \E s \in Inputs : TypeInput(s)
    \/ HandleSend
    \/ \E r \in net : Serve(r)
    \/ \E r \in net : \E o \in Outcomes(r) : ChatResponse(r, o)
    \/ \E r \in net : \E o \in Outcomes(r) : ListResponse(r, o)

SpecSend == Init /\ [][NextSend]_vars

\* One session: sending, selecting a conversation and starting a new thread.
NextThread ==
    \/ \E t \in Tokens : Login(t)
    \/ NewThread
    \/ \E s \in Inputs : TypeInput(s)
    \/ HandleSend
    \/ \E i \in 1..Len(conversations) : SelectConversation(i)
    \/ \E r \in net : Serve(r)
    \/ \E r \in net : \E o \in Outcomes(r) : ChatResponse(r, o)
    \/ \E r \in net : \E o \in Outcomes(r) : ListResponse(r, o)
    \/ \E r \in net : \E o \in Outcomes(r) : ConvResponse(r, o)

SpecThread == Init /\ [][NextThread]_vars

\* One session: sending, reloading the list and deleting.
NextNewConversation ==
    \/ \E t \in Tokens : Login(t)
    \/ Reload
    \/ \E s \in Inputs : TypeInput(s)
    \/ HandleSend
    \/ \E i \in 1..Len(conversations) : HandleDeleteConversation(i)
    \/ \E r \in net : Serve(r)
    \/ \E r \in net : \E o \in Outcomes(r) : ChatResponse(r, o)
    \/ \E r \in net : \E o \in Outcomes(r) : ListResponse(r, o)
    \/ \E r \in net : \E o \in Outcomes(r) : DeleteResponse(r, o)

SpecNewConversation == Init /\ [][NextNewConversation]_vars

\* Selecting alone, in a sidebar of several conversations.
NextSelect ==
    \/ \E t \in Tokens : Login(t)
    \/ \E i \in 1..Len(conversations) : SelectConversation(i)
    \/ \E r \in net : Serve(r)
    \/ \E r \in net : \E o \in Outcomes(r) : ListResponse(r, o)
    \/ \E r \in net : \E o \in Outcomes(r) : ConvResponse(r, o)

SpecSelect == InitSidebar /\ [][NextSelect]_vars

\* Selecting and deleting, in a sidebar of several conversations.
NextSwitch ==
    \/ \E t \in Tokens : Login(t)
    \/ \E i \in 1..Len(conversations) : SelectConversation(i)
    \/ \E i \in 1..Len(conversations) : HandleDeleteConversation(i)
    \/ \E r \in net : Serve(r)
    \/ \E r \in net : \E o \in Outcomes(r) : ListResponse(r, o)
    \/ \E r \in net : \E o \in Outcomes(r) : ConvResponse(r, o)
    \/ \E r \in net : \E o \in Outcomes(r) : DeleteResponse(r, o)

SpecSwitch == InitSidebar /\ [][NextSwitch]_vars

----------------------------------------------------------------------------
(* The sidebar alone: loading the list, renaming and deleting. *)

NextSidebar ==
    \/ \E t \in Tokens : Login(t)
    \/ Reload
    \/ \E i \in 1..Len(conversations) : StartEdit(i)
    \/ \E t \in Titles : TypeTitle(t)
    \/ CancelEdit
    \/ HandleRename
    \/ \E i \in 1..Len(conversations) : HandleDeleteConversation(i)
    \/ \E r \in net : Serve(r)
    \/ \E r \in net : \E o \in Outcomes(r) : ListResponse(r, o)
    \/ \E r \in net : \E o \in Outcomes(r) : RenameResponse(r, o)
    \/ \E r \in net : \E o \in Outcomes(r) : DeleteResponse(r, o)

SpecSidebar == Init /\ [][NextSidebar]_vars

\* Renaming alone.
NextRename ==
    \/ \E t \in Tokens : Login(t)
    \/ \E i \in 1..Len(conversations) : StartEdit(i)
    \/ \E t \in Titles : TypeTitle(t)
    \/ CancelEdit
    \/ HandleRename
    \/ \E r \in net : Serve(r)
    \/ \E r \in net : \E o \in Outcomes(r) : ListResponse(r, o)
    \/ \E r \in net : \E o \in Outcomes(r) : RenameResponse(r, o)

SpecRename == Init /\ [][NextRename]_vars

\* Renaming in a sidebar of several conversations.
SpecTitles == InitSidebar /\ [][NextRename]_vars

\* Committing the title as listed and deleting, the list loaded once.
NextRenameDelete ==
    \/ \E t \in Tokens : Login(t)
    \/ \E i \in 1..Len(conversations) : StartEdit(i)
    \/ HandleRename
    \/ \E i \in 1..Len(conversations) : HandleDeleteConversation(i)
    \/ \E r \in net : Serve(r)
    \/ \E r \in net : \E o \in Outcomes(r) : ListResponse(r, o)
    \/ \E r \in net : \E o \in Outcomes(r) : RenameResponse(r, o)
    \/ \E r \in net : \E o \in Outcomes(r) : DeleteResponse(r, o)

SpecRenameDelete == Init /\ [][NextRenameDelete]_vars

----------------------------------------------------------------------------
(* The status banner and the uploads. *)

\* The clock advances in steps of half the banner delay.
TickStep == StatusDelay \div 2

\* setAutoClearingStatus(message), run by a closure whose statusTimeoutId is
\* tid.
SetAutoClearingStatus(message, tid) ==
    /\ timers' = {t \in timers : tid = NoTimer \/ t.id # tid}
                    \cup {[id |-> nextTimer + 1, due |-> now + StatusDelay]}
    /\ statusMessage' = message
    /\ statusTimeoutId' = nextTimer + 1
    /\ nextTimer' = nextTimer + 1
    /\ statusSetAt' = now

\* Timers the bound still allows; each upload in flight keeps one for its
\* final status.
FreeTimers == MaxTimers - nextTimer - Cardinality(uploads)

\* handleUploadPdf / handleUploadExcel, up to its fetch.  The handler keeps
\* the setAutoClearingStatus of the render it was created in, and with it
\* that render's statusTimeoutId.
HandleUpload(type, file) ==
    /\ ChatViewShown
    /\ IF accessToken = NoToken
       THEN /\ last' = Did("uploadIgnored")
            /\ UNCHANGED <<statusMessage, statusTimeoutId, uploads, timers,
                           nextTimer, statusSetAt>>
       ELSE /\ FreeTimers >= 2
            /\ SetAutoClearingStatus(Status("uploading", type, file, 0),
                                     statusTimeoutId)
            /\ uploads' = uploads \cup {[uid |-> nextTimer + 1, type |-> type,
                                          file |-> file, tid |-> statusTimeoutId]}
            /\ last' = Did("upload")
    /\ UNCHANGED now
    /\ UNCHANGED <<chatVars, formVars, renderVars>>

\* An upload handler that reports nothing when its request fails.
FinalStatusSilent(u, o, chunks) ==
    IF o = "ok" THEN Status("done", u.type, u.file, chunks)
    ELSE Status("uploading", u.type, u.file, 0)

\* The final status of an upload whose fetch ended with o.
FinalStatus(u, o, chunks) ==
    IF o = "ok" THEN Status("done", u.type, u.file, chunks)
    ELSE Status("error", u.type, "", 0)

\* The statusTimeoutId the handler's setAutoClearingStatus reads when the
\* response arrives.
TimeoutIdAtResponse(u) == u.tid

\* handleUploadPdf / handleUploadExcel, from its response on.
UploadResponse(u, o, chunks) ==
    /\ u \in uploads
    /\ SetAutoClearingStatus(FinalStatus(u, o, chunks), TimeoutIdAtResponse(u))
    /\ uploads' = uploads \ {u}
    /\ last' = [op |-> "uploadResponse", o |-> o, chunks |-> chunks]
    /\ UNCHANGED now
    /\ UNCHANGED <<chatVars, formVars, renderVars>>

\* The callback of a timer: setStatusMessage(null).
TimerFires(t) ==
    /\ t \in timers
    /\ t.due <= now
    /\ timers' = timers \ {t}
    /\ statusMessage' = NoStatus
    /\ last' = Did("timer")
    /\ UNCHANGED <<statusTimeoutId, uploads, nextTimer, now, statusSetAt>>
    /\ UNCHANGED <<chatVars, formVars, renderVars>>

\* Time passes, once every timer that is due has run.
Tick ==
    /\ now < MaxTicks * TickStep
    /\ \A t \in timers : t.due > now
    /\ now' = now + TickStep
    /\ last' = Did("tick")
    /\ UNCHANGED <<statusMessage, statusTimeoutId, uploads, timers, nextTimer,
                   statusSetAt>>
    /\ UNCHANGED <<chatVars, formVars, renderVars>>

NextStatus ==
    \/ \E t \in Tokens : Login(t)
    \/ \E type \in {"pdf", "excel"}, file \in Files : HandleUpload(type, file)
    \/ \E u \in uploads, o \in {"ok", "notok", "reject", "badjson"},
          chunks \in Chunks : UploadResponse(u, o, chunks)
    \/ \E t \in timers : TimerFires(t)
    \/ Tick

SpecStatus == Init /\ [][NextStatus]_vars

----------------------------------------------------------------------------
(* The authentication form, shown while the view holds no token.  The      *)
(* provider answers a sign-up or a sign-in with a session ("session"),     *)
(* with neither an error nor a session ("nosession"), with an error        *)
(* ("error"), or its promise rejects ("reject").                           *)

FormShown == accessToken = NoToken

AuthOutcomes == {"session", "nosession", "error", "reject"}

\* The link under the form: setMode.
ToggleMode ==
    /\ FormShown
    /\ mode' = IF mode = "login" THEN "register" ELSE "login"
    /\ last' = Did("toggleMode")
    /\ UNCHANGED <<loading, errorMsg, authNet>>
    /\ UNCHANGED <<chatVars, statusVars, renderVars>>

\* handleSubmit, up to its await; the submit button is disabled while
\* loading.  The call keeps the mode of the render it was made in.
HandleSubmit ==
    /\ FormShown
    /\ ~loading
    /\ loading' = TRUE
    /\ errorMsg' = NoError
    /\ authNet' = authNet \cup {[mode |-> mode]}
    /\ last' = Did("submit")
    /\ UNCHANGED mode
    /\ UNCHANGED <<chatVars, statusVars, renderVars>>

\* A form that hands over whatever session the provider returns.
YieldsTokenAnyMode(m, o) == o = "session"

\* handleSubmit calls onAuth after a sign-in that returned no error and a
\* session with a token.
YieldsToken(m, o) == m = "login" /\ o = "session"

\* The text shown next to the form after a failure: the provider's message,
\* or that of the error thrown.
ErrorShown(o) == IF o = "error" THEN "provider" ELSE "thrown"

\* handleSubmit, from the provider's answer on.  onAuth is setAccessToken:
\* the view then drops the form, whose state is new when it is shown again,
\* and its effect on accessToken loads the list.
AuthResponse(a, o, t) ==
    /\ a \in authNet
    /\ authNet' = authNet \ {a}
    /\ last' = [op |-> "authResponse", o |-> o, mode |-> a.mode]
    /\ IF YieldsToken(a.mode, o)
       THEN /\ FreeRids >= 1
            /\ accessToken' = t
            /\ LoadConversationsCall(t, FALSE, NoId, net)
            /\ mode' = "login"
            /\ loading' = FALSE
            /\ errorMsg' = NoError
       ELSE /\ errorMsg' = IF o \in {"error", "reject"} THEN ErrorShown(o)
                            ELSE errorMsg
            /\ loading' = FALSE
            /\ UNCHANGED <<mode, accessToken, net, nextRid>>
    /\ UNCHANGED <<messages, input, isLoading, conversations, currentConversationId,
                   editingId, editingTitle, srvConvs, srvMsgs, srvNext, srvGone>>
    /\ UNCHANGED <<statusVars, renderVars>>

\* The form, the session and the list it loads.
NextAuth ==
    \/ ToggleMode
    \/ HandleSubmit
    \/ \E a \in authNet, o \in AuthOutcomes, t \in Tokens : AuthResponse(a, o, t)
    \/ Logout
    \/ Reload
    \/ \E r \in net : Serve(r)
    \/ \E r \in net : \E o \in Outcomes(r) : ListResponse(r, o)

SpecAuth == Init /\ [][NextAuth]_vars

----------------------------------------------------------------------------
(* The answer renderer.  A text is a sequence of characters. *)

\* The characters of the texts rendered: a letter, the dash, the blank, the
\* line feed and the asterisk.
RenderChars == {"A", "-", " ", "\n", "*"}

\* The examples of the specification: "A\n- B\n- C\nD" and "**x** y **z**".
ExampleLines == <<"A", "\n", "-", " ", "B", "\n", "-", " ", "C", "\n", "D">>

ExampleBold == <<"*", "*", "x", "*", "*", " ", "y", " ", "*", "*", "z", "*", "*">>

Texts ==
    UNION {[1..n -> RenderChars] : n \in 0..MaxText}
        \cup {ExampleLines, ExampleBold}

\* s.slice(from) for 0 <= from.
Drop(s, from) == SubSeq(s, from + 1, Len(s))

\* The length of the longest prefix of s made of characters of set.
RECURSIVE RunLength(_, _)
RunLength(s, set) ==
    IF s # <<>> /\ Head(s) \in set THEN 1 + RunLength(Tail(s), set) ELSE 0

\* The length of the longest prefix of s without the character stop.
RECURSIVE RunUntil(_, _)
RunUntil(s, stop) ==
    IF s # <<>> /\ Head(s) # stop THEN 1 + RunUntil(Tail(s), stop) ELSE 0

\* m.content.split("\n")
RECURSIVE SplitLines(_)
SplitLines(s) ==
    LET n == RunUntil(s, "\n")
    IN  IF n = Len(s) THEN <<s>>
        ELSE <<SubSeq(s, 1, n)>> \o SplitLines(Drop(s, n + 1))

\* A bullet pattern that allows no blank before the dash: /^-\s+/.
BulletMarkerNoIndent(l) ==
    IF l # <<>> /\ Head(l) = "-" /\ RunLength(Tail(l), {" "}) >= 1
    THEN 1 + RunLength(Tail(l), {" "})
    ELSE 0

\* The length of the match of /^\s*-\s+/ in l, 0 when there is none.
BulletMarker(l) ==
    LET lead == RunLength(l, {" "})
        rest == Drop(l, lead)
    IN  IF rest # <<>> /\ Head(rest) = "-" /\ RunLength(Tail(rest), {" "}) >= 1
        THEN lead + 1 + RunLength(Tail(rest), {" "})
        ELSE 0

\* The length of the match of /\*\*[^*]+\*\*/ at the start of s, 0 when
\* there is none: [^*]+ takes the whole run of characters other than the
\* asterisk, as the pattern goes on with an asterisk.
BoldMatch(s) ==
    IF Len(s) >= 5 /\ s[1] = "*" /\ s[2] = "*"
    THEN LET run == RunUntil(Drop(s, 2), "*")
         IN  IF run >= 1 /\ Len(s) >= run + 4
                /\ s[run + 3] = "*" /\ s[run + 4] = "*"
             THEN run + 4 ELSE 0
    ELSE 0

\* The number of characters before the first match of the pattern in s,
\* Len(s) when there is none.
RECURSIVE BeforeBold(_)
BeforeBold(s) ==
    IF s = <<>> \/ BoldMatch(s) > 0 THEN 0 ELSE 1 + BeforeBold(Tail(s))

\* text.split(/(\*\*[^*]+\*\*)/g): the pieces between the matches and, for
\* the capturing group, the matches.
RECURSIVE SplitBold(_)
SplitBold(s) ==
    LET b == BeforeBold(s)
    IN  IF b = Len(s) THEN <<s>>
        ELSE <<SubSeq(s, 1, b), SubSeq(s, b + 1, b + BoldMatch(Drop(s, b)))>>
                \o SplitBold(Drop(s, b + BoldMatch(Drop(s, b))))

\* part.startsWith("**") && part.endsWith("**")
IsBoldPart(part) ==
    /\ Len(part) >= 2
    /\ part[1] = "*" /\ part[2] = "*"
    /\ part[Len(part) - 1] = "*" /\ part[Len(part)] = "*"

\* part.slice(2, -2)
Inner(part) == SubSeq(part, 3, Len(part) - 2)

\* One element of the output of renderBold: <strong> or <span>.
Span(strong, chars) == [strong |-> strong, chars |-> chars]

\* renderBold(text)
RenderBold(s) ==
    LET parts == SplitBold(s)
    IN  [idx \in 1..Len(parts) |->
            IF IsBoldPart(parts[idx]) THEN Span(TRUE, Inner(parts[idx]))
            ELSE Span(FALSE, parts[idx])]

\* The lines the renderer keeps: those that are not blank.
Lines(s) == SelectSeq(SplitLines(s), LAMBDA l : Trim(l) # <<>>)

\* bulletLines, as displayed: each without its marker.
BulletLines(s) ==
    LET marked == SelectSeq(Lines(s), LAMBDA l : BulletMarker(l) > 0)
    IN  [k \in 1..Len(marked) |-> Drop(marked[k], BulletMarker(marked[k]))]

\* otherLines
OtherLines(s) == SelectSeq(Lines(s), LAMBDA l : BulletMarker(l) = 0)

\* One line displayed: a list item or a paragraph.
Shown(li, chars) == [li |-> li, chars |-> chars]

\* A renderer that puts the list before the paragraphs.
DisplayedListFirst(paragraphs, bullets) ==
    [k \in 1..Len(bullets) |-> Shown(TRUE, bullets[k])]
        \o [k \in 1..Len(paragraphs) |-> Shown(FALSE, paragraphs[k])]

\* The lines in the order of the elements returned: the <p> elements, then
\* the <ul> with its <li> elements.
Displayed(paragraphs, bullets) ==
    [k \in 1..Len(paragraphs) |-> Shown(FALSE, paragraphs[k])]
        \o [k \in 1..Len(bullets) |-> Shown(TRUE, bullets[k])]

\* The renderer of an assistant message: the paragraphs, then the list.
RenderAssistant ==
    /\ view = NoView
    /\ view' = [kind |-> "assistant",
                paragraphs |-> OtherLines(assistantText),
                bullets |-> BulletLines(assistantText),
                shown |-> Displayed(OtherLines(assistantText),
                                    BulletLines(assistantText)),
                spans |-> [k \in 1..Len(OtherLines(assistantText)
                                          \o BulletLines(assistantText)) |->
                            RenderBold((OtherLines(assistantText)
                                          \o BulletLines(assistantText))[k])]]
    /\ last' = Did("renderAssistant")
    /\ UNCHANGED assistantText
    /\ UNCHANGED <<chatVars, statusVars, formVars>>

\* The renderer of a user message: the content as it is.
RenderUser ==
    /\ view = NoView
    /\ view' = [kind |-> "user", paragraphs |-> <<assistantText>>]
    /\ last' = Did("renderUser")
    /\ UNCHANGED assistantText
    /\ UNCHANGED <<chatVars, statusVars, formVars>>

NextRender ==
    \/ RenderAssistant
    \/ RenderUser

InitRender == InitWith(InitServerConvs, Texts)

SpecRender == InitRender /\ [][NextRender]_vars

----------------------------------------------------------------------------
(* Claims on the conversation controller. *)

\* The request a step takes out of flight, if it takes one.
Completes(r) == r \in net /\ r \notin net'

\* C1: every message of the transcript belongs to the active conversation: it
\* was fetched for the active id, or exchanged in the active conversation (a
\* message exchanged in a thread that had no id yet carries none).
C1_TranscriptOfActive ==
    \A i \in 1..Len(messages) :
        messages[i].conv \in {NoId, currentConversationId}

\* C2: at most one POST /chat is outstanding, and the busy flag is set for as
\* long as it is.
C2_OneChatOutstanding ==
    /\ Cardinality(Pending("chat")) <= 1
    /\ Pending("chat") # {} => isLoading

\* C2 witness: handleSend was called again (and returned early) while a chat
\* request was outstanding.
C2_Witness == Pending("chat") # {} /\ last.op = "sendIgnored"

\* C3: a chat call that fails appends exactly one assistant message, the
\* fixed error text, and leaves the active id unchanged.
C3_FailedChatAppendsOneError ==
    [][\A r \in Pending("chat") :
          (Completes(r) /\ last'.op = "chatResponse" /\ last'.o # "ok") =>
             /\ Len(messages') = Len(messages) + 1
             /\ SubSeq(messages', 1, Len(messages)) = messages
             /\ messages'[Len(messages')].role = "assistant"
             /\ messages'[Len(messages')].content = ErrorText
             /\ currentConversationId' = currentConversationId]_vars

\* C3 witness: a chat call has just failed, in a conversation that is active.
C3_Witness ==
    /\ last.op = "chatResponse" /\ last.o \in {"notok", "reject", "badjson"}
    /\ currentConversationId # NoId

\* C4: a send made with no active conversation whose response names a
\* conversation makes that conversation active and only then requests the
\* list; the list the server prepares for that request holds the new
\* conversation unless the server has deleted it, and so does the local list
\* when that response is applied.
C4_NewConversationAdoptedAndListed ==
    [][/\ \A r \in Pending("chat") :
             (Completes(r) /\ last'.o = "ok" /\ r.id = NoId /\ r.newId # NoId) =>
                /\ currentConversationId' = r.newId
                /\ \A l \in Pending("list") : ~l.fromSend
                /\ \E l \in net' \ net :
                      l.kind = "list" /\ l.fromSend /\ l.stage = "sent"
                      /\ l.after = r.newId
       /\ \A l \in net' :
             (l.kind = "list" /\ l.after # NoId /\ l.stage = "served") =>
                (l.after \in Ids(l.list) \/ l.after \in srvGone')
       /\ \A l \in Pending("list") :
             (Completes(l) /\ l.after # NoId /\ last'.o = "ok") =>
                (l.after \in Ids(conversations') \/ l.after \in srvGone)]_vars

\* C4 witness: the refresh of a send that started a conversation has arrived
\* and the new conversation is active and listed.
C4_Witness ==
    /\ last = Got("refreshResponse", "ok")
    /\ currentConversationId > InitConvs
    /\ currentConversationId \in Ids(conversations)

\* C5: when the delete of X completes while X is active, the active id
\* becomes null and the transcript empty.
C5_DeleteOfActiveClears ==
    [][\A r \in Pending("delete") :
          (Completes(r) /\ last'.o = "ok" /\ currentConversationId = r.id) =>
             (currentConversationId' = NoId /\ messages' = <<>>)]_vars

\* C8: a conversation fetch that fails leaves the transcript and the active
\* id as they are.
C8_FailedFetchKeepsTranscript ==
    [][\A r \in Pending("conv") :
          (Completes(r) /\ last'.op = "convResponse" /\ last'.o # "ok") =>
             UNCHANGED <<messages, currentConversationId>>]_vars

\* C8 witness: a fetch has just failed while a transcript was displayed.
C8_Witness ==
    /\ last.op = "convResponse" /\ last.o \in {"notok", "reject", "badjson", "nofield"}
    /\ messages # <<>>
    /\ currentConversationId # NoId

\* C10: a delete request that fails leaves the local list, the active id and
\* the transcript as they are.
C10_FailedDeleteChangesNothing ==
    [][\A r \in Pending("delete") :
          (Completes(r) /\ last'.o \in {"notok", "reject"}) =>
             UNCHANGED <<conversations, currentConversationId, messages>>]_vars

\* C11: a chat call that succeeds issues exactly one GET /conversations, with
\* the token the question was sent with; a chat call that fails issues no
\* request.
C11_RefreshAfterSuccessOnly ==
    [][\A r \in Pending("chat") :
          (Completes(r) /\ last'.op = "chatResponse") =>
             IF last'.o = "ok"
             THEN \E l \in net' \ net :
                     /\ net' = (net \ {r}) \cup {l}
                     /\ l.kind = "list" /\ l.stage = "sent"
                     /\ l.token = r.token
             ELSE net' = net \ {r}]_vars

\* C11 witness: a chat call has succeeded after the user logged out, and its
\* list request is in flight with the token of the send.
C11_Witness ==
    /\ last = Got("chatResponse", "ok")
    /\ accessToken = NoToken
    /\ \E l \in Pending("list") : l.fromSend /\ l.token \in Tokens

\* C17: the busy flag is cleared when a chat call fails and when the list
\* refresh of a send settles, whatever its outcome; it is set only while a
\* chat request or the refresh of a send is outstanding.
C17_BusyFlagCleared ==
    [][/\ \A r \in Pending("chat") :
             (Completes(r) /\ last'.op = "chatResponse" /\ last'.o # "ok") =>
                ~isLoading'
       /\ \A l \in Pending("list") :
             (Completes(l) /\ l.fromSend /\ last'.op = "refreshResponse") =>
                ~isLoading'
       /\ isLoading' =>
             \E r \in net' : r.kind = "chat" \/ (r.kind = "list" /\ r.fromSend)]_vars

\* C17 witness: the refresh of a send has failed and the busy flag is clear.
C17_Witness ==
    /\ last.op = "refreshResponse"
    /\ last.o \in {"notok", "reject", "badjson"}
    /\ ~isLoading

\* C18: an accepted send appends one user message holding the trimmed
\* question, empties the input, sets the busy flag and issues one POST /chat
\* with the trimmed question and the id that is active (null when none is).
C18_AcceptedSend ==
    [][last'.op = "send" =>
          /\ Len(messages') = Len(messages) + 1
          /\ SubSeq(messages', 1, Len(messages)) = messages
          /\ messages'[Len(messages')].role = "user"
          /\ messages'[Len(messages')].content = Trim(input)
          /\ Trim(input) # <<>>
          /\ input' = <<>>
          /\ isLoading'
          /\ \E r \in net' \ net :
                /\ net' = net \cup {r}
                /\ r.kind = "chat" /\ r.stage = "sent"
                /\ r.text = Trim(input)
                /\ r.id = currentConversationId]_vars

\* C18 witness: a question was sent in a conversation that is active, and
\* its request is in flight.
C18_Witness ==
    /\ last.op = "send"
    /\ currentConversationId # NoId
    /\ \E r \in Pending("chat") :
          r.stage = "sent" /\ r.id = currentConversationId /\ r.text = <<"q">>

\* C21: a delete of X that completes removes from the local list the
\* summaries with id X and keeps the others as they are, in their order; when
\* X is not the active conversation, the active id and the transcript stay
\* as they are.
C21_DeleteRemovesOnlyX ==
    [][\A r \in Pending("delete") :
          (Completes(r) /\ last'.op = "deleteResponse" /\ last'.o = "ok") =>
             /\ conversations' = SelectSeq(conversations, LAMBDA c : c.id # r.id)
             /\ currentConversationId # r.id =>
                   UNCHANGED <<currentConversationId, messages>>]_vars

\* C22: with only selections in flight, a fetch that succeeds makes its
\* conversation active together with the transcript of its response, a fetch
\* that fails changes neither, and so the transcript displayed is always the
\* one the server holds for the active id.
C22_SelectionAppliedWhole ==
    [][/\ \A r \in Pending("conv") :
             (Completes(r) /\ last'.op = "convResponse") =>
                IF last'.o = "ok"
                THEN messages' = r.msgs /\ currentConversationId' = r.id
                ELSE UNCHANGED <<messages, currentConversationId>>
       /\ currentConversationId' # NoId =>
             messages' = srvMsgs'[currentConversationId']
       /\ currentConversationId' = NoId => messages' = <<>>]_vars

\* C22 witness: of two overlapping selections the later one (the third
\* request of the session) has been answered first and is displayed, while
\* the earlier one, of another conversation, is still in flight.
C22_Witness ==
    /\ last = Got("convResponse", "ok")
    /\ nextRid = 3
    /\ currentConversationId # NoId
    /\ messages = srvMsgs[currentConversationId]
    /\ \E r \in Pending("conv") : r.rid = 2 /\ r.id # currentConversationId

\* C23: while no token is held, the conversation list and the transcript
\* are empty and no conversation is active.
C23_NothingShownWithoutToken ==
    accessToken = NoToken =>
        /\ conversations = <<>>
        /\ messages = <<>>
        /\ currentConversationId = NoId

\* C26: handleSend called with an input that is empty once trimmed, or while
\* the busy flag is set, or without a token, issues no request and leaves
\* the transcript, the input, the busy flag, the active id and the list as
\* they are.
C26_IgnoredSendChangesNothing ==
    [][(/\ last'.op \in {"send", "sendIgnored"}
        /\ (Trim(input) = <<>> \/ isLoading \/ accessToken = NoToken)) =>
          /\ net' = net
          /\ nextRid' = nextRid
          /\ UNCHANGED <<messages, input, isLoading, currentConversationId,
                         conversations>>]_vars

\* C26 witness: handleSend was called on an input of blanks while nothing
\* was being sent.
C26_Witness ==
    /\ last.op = "sendIgnored"
    /\ input # <<>> /\ Trim(input) = <<>>
    /\ ~isLoading
    /\ Pending("chat") = {}

----------------------------------------------------------------------------
(* Claims on the sidebar. *)

\* C6: committing a title that is empty once trimmed sends nothing, changes
\* no summary and ends the edit.
C6_EmptyRenameSendsNothing ==
    [][(/\ last'.op \in {"rename", "renameEmpty", "renameIgnored"}
        /\ TitleBoxShown
        /\ Trim(editingTitle) = <<>>) =>
          /\ net' = net
          /\ nextRid' = nextRid
          /\ conversations' = conversations
          /\ editingId' = NoId]_vars

\* C6 witness: a title of whitespace only has just been committed.
C6_Witness ==
    /\ last.op = "renameEmpty"
    /\ editingTitle # <<>>
    /\ editingId = NoId
    /\ conversations # <<>>

\* C9: a rename request that fails leaves the local titles as they are.
C9_FailedRenameKeepsTitle ==
    [][\A r \in Pending("rename") :
          (Completes(r) /\ last'.o \in {"notok", "reject"}) =>
             conversations' = conversations]_vars

\* C15: Escape in the title box ends the edit, sends nothing and leaves the
\* local list as it is.
C15_EscapeDiscardsEdit ==
    [][last'.op = "cancelEdit" =>
          /\ editingId' = NoId
          /\ net' = net
          /\ nextRid' = nextRid
          /\ conversations' = conversations]_vars

\* C15 witness: Escape was pressed on a title that had been changed, and the
\* summary keeps its title.
C15_Witness ==
    /\ last.op = "cancelEdit"
    /\ editingId = NoId
    /\ Trim(editingTitle) # <<>>
    /\ \E i \in 1..Len(conversations) : conversations[i].title # Trim(editingTitle)
    /\ Pending("rename") = {}

\* The rename of a conversation completes when the local list no longer holds
\* it.  The list is requested once, at login, and a rename is committed in
\* the title box of a listed summary, so only a delete can have removed it.
RenameCompletesAfterDelete(r) ==
    /\ Completes(r)
    /\ last'.op = "renameResponse" /\ last'.o \in {"ok", "notok"}
    /\ r.id \notin Ids(conversations)

\* C16 as claimed: a rename that completes after the delete removed the
\* conversation from the local list puts it back.
C16_StaleReAdd ==
    [][\A r \in Pending("rename") :
          RenameCompletesAfterDelete(r) => r.id \in Ids(conversations')]_vars

\* C16 as amended: a rename that completes after the delete removed the
\* conversation from the local list leaves the list as it is, without the
\* conversation.
C16_NoReAdd ==
    [][\A r \in Pending("rename") :
          RenameCompletesAfterDelete(r) =>
             /\ conversations' = conversations
             /\ r.id \notin Ids(conversations')]_vars

\* C16 witness: the rename of a conversation has completed after its delete,
\* and the conversation is not in the list.
C16_Witness ==
    /\ last.op = "renameResponse" /\ last.o = "ok"
    /\ last.id \in srvGone
    /\ last.id \notin Ids(conversations)
    /\ Pending("delete") = {} /\ Pending("list") = {}

\* C19: committing a title that is not empty once trimmed sends one PUT with
\* the trimmed title; when it completes, the summary of that conversation
\* has that title, the other summaries are as before, none is added or
\* removed, and no edit is open.
C19_RenameSetsOneTitle ==
    [][/\ last'.op = "rename" =>
             /\ \E r \in net' \ net :
                   /\ net' = net \cup {r}
                   /\ r.kind = "rename" /\ r.stage = "sent"
                   /\ r.id = editingId
                   /\ r.text = Trim(editingTitle) /\ r.text # <<>>
             /\ conversations' = conversations
       /\ \A r \in Pending("rename") :
             (Completes(r) /\ last'.op = "renameResponse" /\ last'.o = "ok") =>
                /\ Len(conversations') = Len(conversations)
                /\ \A i \in 1..Len(conversations) :
                      /\ conversations'[i].id = conversations[i].id
                      /\ conversations'[i].title =
                            IF conversations[i].id = r.id THEN r.text
                            ELSE conversations[i].title
                /\ editingId' = NoId]_vars

\* C19 witness: a rename has completed in a list of several summaries, and
\* one summary alone has the new title.
C19_Witness ==
    /\ last.op = "renameResponse" /\ last.o = "ok"
    /\ editingId = NoId
    /\ \E i, j \in 1..Len(conversations) :
          /\ conversations[i].id = last.id
          /\ conversations[i].title = <<"x">>
          /\ conversations[j].title # <<"x">>

\* C24: when the rename of A completes while another conversation is being
\* edited, that edit stays open.
C24_RenameEndsOwnEditOnly ==
    [][\A r \in Pending("rename") :
          (/\ Completes(r) /\ last'.op = "renameResponse"
           /\ editingId # NoId /\ editingId # r.id) =>
             editingId' = editingId]_vars

\* C25: a list response that was in flight when a delete was applied to the
\* local list (its request was issued before) and arrives right after it
\* does not bring the deleted conversation back.
C25_DeletedStaysDeleted ==
    [][\A l \in Pending("list") :
          (/\ last.op = "deleteResponse" /\ last.o = "ok"
           /\ last.id \notin Ids(conversations)
           /\ Completes(l)
           /\ last'.op \in {"listResponse", "refreshResponse"}) =>
             last.id \notin Ids(conversations')]_vars

----------------------------------------------------------------------------
(* Claims on the status banner. *)

\* C7: a displayed status is cleared only once its own delay has elapsed.
C7_StatusShownForItsDelay ==
    [][(statusMessage # NoStatus /\ statusMessage' = NoStatus) =>
          now >= statusSetAt + StatusDelay]_vars

\* C20: when the request of an upload settles, the banner is set to the final
\* status of that upload: the success message with its file name and the
\* count the server reported when the response is ok and parses, otherwise
\* the error message of its type; never its "uploading" message.
C20_UploadEndsWithFinalStatus ==
    [][\A u \in uploads :
          (u \notin uploads' /\ last'.op = "uploadResponse") =>
             /\ statusMessage'.kind # "uploading"
             /\ statusMessage'.type = u.type
             /\ IF last'.o = "ok"
                THEN /\ statusMessage'.kind = "done"
                     /\ statusMessage'.file = u.file
                     /\ statusMessage'.chunks = last'.chunks
                ELSE statusMessage'.kind = "error"]_vars

\* C20 witness: an Excel upload whose response did not parse has ended with
\* the error message of the Excel upload.
C20_Witness ==
    /\ last.op = "uploadResponse" /\ last.o = "badjson"
    /\ statusMessage = Status("error", "excel", "", 0)

----------------------------------------------------------------------------
(* Claims on the answer renderer. *)

\* The line has a character that is not a blank.
NonBlank(l) == \E i \in 1..Len(l) : l[i] # " "

\* The line begins with blanks (or none), a dash and a blank: d is the place
\* of the dash.
DashAt(l, d) ==
    /\ d \in 1..(Len(l) - 1)
    /\ l[d] = "-" /\ l[d + 1] = " "
    /\ \A i \in 1..(d - 1) : l[i] = " "

Marked(l) == \E d \in 1..Len(l) : DashAt(l, d)

\* b is the line l without its leading marker: the blanks, the dash and all
\* the blanks that follow it.
Unmarked(l, b) ==
    \E d \in 1..Len(l) : \E e \in (d + 1)..Len(l) :
        /\ DashAt(l, d)
        /\ \A i \in (d + 1)..e : l[i] = " "
        /\ e < Len(l) => l[e + 1] # " "
        /\ b = SubSeq(l, e + 1, Len(l))

\* C12: the paragraphs are the non-blank lines that do not begin with a
\* marker and the bullets the non-blank lines that do, each list in the
\* order of the text and each bullet without its marker.
C12_LinesSplit ==
    view.kind = "assistant" =>
        LET all == SplitLines(assistantText)
            plain == SelectSeq(all, LAMBDA l : NonBlank(l) /\ ~Marked(l))
            marked == SelectSeq(all, LAMBDA l : NonBlank(l) /\ Marked(l))
        IN  /\ view.paragraphs = plain
            /\ Len(view.bullets) = Len(marked)
            /\ \A k \in 1..Len(marked) : Unmarked(marked[k], view.bullets[k])

\* C12 witness: the example of the specification, rendered.
C12_Witness ==
    /\ assistantText = ExampleLines
    /\ view.kind = "assistant"
    /\ view.paragraphs = << <<"A">>, <<"D">> >>
    /\ view.bullets = << <<"B">>, <<"C">> >>

\* The text has, at place i, two asterisks, one or more characters other
\* than the asterisk, and two asterisks.
DelimitedAt(s, i) ==
    \E j \in (i + 3)..(Len(s) - 1) :
        /\ s[i] = "*" /\ s[i + 1] = "*"
        /\ s[j] = "*" /\ s[j + 1] = "*"
        /\ \A k \in (i + 2)..(j - 1) : s[k] # "*"

\* The spans, with the markers put back around the emphasized ones.
RECURSIVE Unrendered(_)
Unrendered(spans) ==
    IF spans = <<>> THEN <<>>
    ELSE (IF Head(spans).strong
          THEN <<"*", "*">> \o Head(spans).chars \o <<"*", "*">>
          ELSE Head(spans).chars) \o Unrendered(Tail(spans))

\* C13: in every line displayed, an emphasized span is not empty and has no
\* asterisk, no plain span holds a delimited span, and the spans, with the
\* markers put back around the emphasized ones, are the line: only markers
\* were removed.
C13_BoldSpans ==
    view.kind = "assistant" =>
        \A k \in 1..Len(view.spans) :
            LET line == (view.paragraphs \o view.bullets)[k]
                spans == view.spans[k]
            IN  /\ Unrendered(spans) = line
                /\ \A n \in 1..Len(spans) :
                      IF spans[n].strong
                      THEN /\ spans[n].chars # <<>>
                           /\ \A i \in 1..Len(spans[n].chars) :
                                 spans[n].chars[i] # "*"
                      ELSE \A i \in 1..Len(spans[n].chars) :
                              ~DelimitedAt(spans[n].chars, i)

----------------------------------------------------------------------------
(* Claims on the authentication form. *)

\* C14: when a submit of the form completes, the view is handed a token only
\* if the submit was a password sign-in and the provider returned a session:
\* a sign-up, whatever its outcome, and a sign-in that failed or returned no
\* session leave the view without a token.
C14_TokenOnlyAfterSignIn ==
    [][\A a \in authNet :
          a \notin authNet' =>
             /\ accessToken' # accessToken =>
                   a.mode = "login" /\ last'.o = "session"
             /\ (a.mode = "register" \/ last'.o # "session") =>
                   accessToken' = NoToken]_vars

\* C14 witness: a sign-up has succeeded, the provider returned a session, and
\* the view holds no token.
C14_Witness ==
    /\ last.op = "authResponse"
    /\ last.mode = "register" /\ last.o = "session"
    /\ accessToken = NoToken
    /\ errorMsg = NoError

\* The non-blank lines of the text in the order of the text, each bullet
\* line without its marker.
InTextOrder(s) ==
    LET kept == SelectSeq(SplitLines(s), NonBlank)
    IN  [k \in 1..Len(kept) |->
            IF Marked(kept[k])
            THEN Shown(TRUE,
                       CHOOSE b \in {SubSeq(kept[k], e, Len(kept[k])) :
                                        e \in 1..(Len(kept[k]) + 1)} :
                           Unmarked(kept[k], b))
            ELSE Shown(FALSE, kept[k])]

\* In the text, a plain line follows a bullet line.
PlainAfterBullet(s) ==
    LET kept == SelectSeq(SplitLines(s), NonBlank)
    IN  \E i, j \in 1..Len(kept) :
            i < j /\ Marked(kept[i]) /\ ~Marked(kept[j])

\* C27: every paragraph is displayed before every list item, and the lines
\* are displayed in the order of the text exactly when no plain line follows
\* a bullet line in the text.
C27_ParagraphsBeforeBullets ==
    view.kind = "assistant" =>
        /\ \A i, j \in 1..Len(view.shown) :
              (view.shown[i].li /\ ~view.shown[j].li) => j < i
        /\ (view.shown = InTextOrder(assistantText))
              <=> ~PlainAfterBullet(assistantText)

\* C27 witness: in the example of the specification the line D, which
\* follows the bullets in the text, is displayed before them.
C27_Witness ==
    /\ assistantText = ExampleLines
    /\ view.kind = "assistant"
    /\ view.shown = <<Shown(FALSE, <<"A">>), Shown(FALSE, <<"D">>),
                      Shown(TRUE, <<"B">>), Shown(TRUE, <<"C">>)>>
    /\ view.shown # InTextOrder(assistantText)

====
